---- MODULE Spec2Model ----
(***************************************************************************)
(* A model of src/paises-co2-streamlit.py: one Streamlit script that loads *)
(* 'owid-co2-data.csv', cleans it, and renders three tabs (comparison of   *)
(* two years, map with a top-10 list, historical trends).  The script is   *)
(* executed from top to bottom on every user interaction; the loaded       *)
(* DataFrame is memoised by @st.cache_data.                                *)
(*                                                                         *)
(* A CSV cell is a record [k, v]: a number, NaN (an empty cell) or a       *)
(* non-numeric string.  A float is a record [t, n, d]: the rational n/d,   *)
(* nan, +inf or -inf, with numpy's float64 rules for division by zero and  *)
(* for comparisons with nan.  Display rounding with ndigits (round(x, 1))  *)
(* is not modelled; round(x) without ndigits is, where it raises.          *)
(***************************************************************************)
EXTENDS Integers, Sequences, FiniteSets, TLC

VARIABLES
    arquivo,              \* the file 'owid-co2-data.csv' read by carregar_dados
    cache,                \* @st.cache_data: the memoised return of carregar_dados
    pc,                   \* position of the script run
    df,                   \* df = carregar_dados()
    tela,                 \* the elements shown to the user in this run, in order
    df_clean,             \* limpar_dados(df)[0]
    df_countries,         \* limpar_dados(df)[1]
    ano1, ano2,           \* tab 1: the two selected years
    paises_selecionados,  \* tab 1: the selected countries, in selection order
    media1, media2,       \* tab 1: the "global means" of the two years
    definicao,            \* which branch of lines 177-182 computed media1/media2 last
    i,                    \* tab 1: index of the per-country loop of line 249
    cartao,               \* tab 1: what the last loop iteration computed and showed
    ano_mapa,             \* tab 2: the selected year
    metrica_mapa,         \* tab 2: the selected metric
    top10,                \* tab 2: the rows of the 'Top 10' chart
    paises_tendencia,     \* tab 3: the selected countries
    df_tendencia,         \* tab 3: the filtered rows
    entrada               \* inputs of the per-country card when it is checked alone

vars == <<arquivo, cache, pc, df, tela, df_clean, df_countries, ano1, ano2,
          paises_selecionados, media1, media2, definicao, i, cartao,
          ano_mapa, metrica_mapa, top10, paises_tendencia, df_tendencia, entrada>>

----------------------------------------------------------------------------
(* Bounds of the model and constants of the program *)

MaxFree == 2
MaxSel == 2
AnoCorte == 1990
OffsetAno1 == 5
OffsetAno2 == 1
TopN == 10
SemAno == 0

----------------------------------------------------------------------------
(* Cells and floats *)

Num(n) == [k |-> "num", v |-> n]
NaN == [k |-> "nan", v |-> 0]
Txt == [k |-> "str", v |-> 0]

IsNa(c) == c.k = "nan"

Abs(x) == IF x < 0 THEN -x ELSE x

RECURSIVE Gcd(_, _)
Gcd(a, b) == IF b = 0 THEN a ELSE Gcd(b, a % b)

\* the rational n/d (d # 0) in lowest terms with a positive denominator
Frac(n, d) ==
    LET g == Gcd(Abs(n), Abs(d))
        s == IF d < 0 THEN -1 ELSE 1
    IN  [t |-> "num", n |-> (s * n) \div g, d |-> (s * d) \div g]

FNaN == [t |-> "nan", n |-> 0, d |-> 1]
FInf == [t |-> "inf", n |-> 1, d |-> 1]
FNegInf == [t |-> "ninf", n |-> -1, d |-> 1]

\* the float64 a numeric column holds for a cell (pd.to_numeric, errors='coerce')
ToFloat(c) == IF c.k = "num" THEN Frac(c.v, 1) ELSE FNaN

\* x > 0, x < 0 and x == 0 on floats: every comparison with nan is False
FGt0(x) == (x.t = "inf") \/ (x.t = "num" /\ x.n > 0)
FLt0(x) == (x.t = "ninf") \/ (x.t = "num" /\ x.n < 0)

FNeg(x) ==
    CASE x.t = "num" -> Frac(-x.n, x.d)
      [] x.t = "inf" -> FNegInf
      [] x.t = "ninf" -> FInf
      [] OTHER -> FNaN

FAbs(x) == IF FLt0(x) THEN FNeg(x) ELSE x

\* a - b, for finite or nan operands (cell values are never infinite)
FSub(a, b) ==
    IF a.t = "num" /\ b.t = "num"
    THEN Frac(a.n * b.d - b.n * a.d, a.d * b.d)
    ELSE FNaN

\* a / b, for finite or nan operands: numpy scalars do not raise on a zero
\* divisor, they give inf, -inf or nan
FDiv(a, b) ==
    IF a.t # "num" \/ b.t # "num" THEN FNaN
    ELSE IF b.n # 0 THEN Frac(a.n * b.d, a.d * b.n)
    ELSE IF a.n > 0 THEN FInf
    ELSE IF a.n < 0 THEN FNegInf
    ELSE FNaN

\* x * k for an integer k > 0
FMul(x, k) == IF x.t = "num" THEN Frac(x.n * k, x.d) ELSE x

----------------------------------------------------------------------------
(* Sequence helpers *)

Range(s) == {s[j] : j \in DOMAIN s}

SeqsUpTo(S, n) == UNION {[1..m -> S] : m \in 0..n}

\* the sequences over S without repetition, of length at most n
InjSeqsUpTo(S, n) ==
    {s \in SeqsUpTo(S, n) : \A a, b \in DOMAIN s : a # b => s[a] # s[b]}

----------------------------------------------------------------------------
(* The input file *)

ColunasBase == {"country", "year", "co2", "iso_code"}
ColunasTodas == ColunasBase \cup {"continent", "co2_per_capita"}

\* the header variants of the file
ColunasVariantes ==
    {ColunasTodas, ColunasBase, ColunasBase \ {"iso_code"}, ColunasBase \ {"co2"},
     ColunasBase \ {"year"}, ColunasBase \ {"country"},
     ColunasBase \ {"country", "iso_code"}}

\* country names of the model, in Python's string order (what sorted() gives)
Paises == <<"Brazil", "EU-27", "India", "World">>

Rank(p) == CHOOSE j \in DOMAIN Paises : Paises[j] = p

ContinenteDe(p) ==
    CASE p = "Brazil" -> "South America"
      [] p = "India" -> "Asia"
      [] OTHER -> ""

IsoDe(p) ==
    CASE p = "Brazil" -> "BRA"
      [] p = "India" -> "IND"
      [] p = "World" -> "OWID_WRL"
      [] OTHER -> ""

PerCapitaDe(p) ==
    CASE p = "Brazil" -> Num(2)
      [] p = "World" -> Num(5)
      [] p = "EU-27" -> Num(7)
      [] OTHER -> NaN

\* one CSV row; "" is an empty text cell, which read_csv loads as NaN
Linha(p, y, c) ==
    [country |-> p, year |-> y, co2 |-> c, continent |-> ContinenteDe(p),
     co2_per_capita |-> PerCapitaDe(p), iso_code |-> IsoDe(p)]

\* last year of the block of rows that gives the file its range of years
FinsDeSerie == {AnoCorte - 2, AnoCorte - 1, AnoCorte + 3, AnoCorte + 4}

\* one row of India per year from AnoCorte - 1 to fim, with co2 = 0
Serie(fim) ==
    [j \in 1..(fim - AnoCorte + 2) |-> Linha("India", Num(AnoCorte - 2 + j), Num(0))]

\* the other rows a file may hold, in the order the file holds them
LinhasLivres ==
    <<Linha("World", Num(AnoCorte), Num(100)),
      Linha("Brazil", Num(AnoCorte), Num(100)),
      Linha("Brazil", Num(AnoCorte), Txt),
      Linha("Brazil", Num(AnoCorte), NaN),
      Linha("", Num(AnoCorte), Num(100)),
      Linha("Brazil", NaN, Num(100)),
      Linha("Brazil", Txt, Num(100)),
      Linha("EU-27", Num(AnoCorte + 4), Num(100)),
      Linha("Brazil", Num(AnoCorte + 4), Num(150)),
      Linha("World", Num(AnoCorte + 4), Num(100))>>

RECURSIVE Escolhidas(_, _)
\* the rows of s at the positions of idx, in the order of s
Escolhidas(s, idx) ==
    IF s = <<>> THEN <<>>
    ELSE Escolhidas(SubSeq(s, 1, Len(s) - 1), idx)
         \o (IF Len(s) \in idx THEN <<s[Len(s)]>> ELSE <<>>)

Arquivos ==
    {[legivel |-> FALSE, colunas |-> {}, linhas |-> <<>>]}
    \cup {[legivel |-> TRUE, colunas |-> cs,
           linhas |-> Serie(f) \o Escolhidas(LinhasLivres, idx)] :
            cs \in ColunasVariantes, f \in FinsDeSerie,
            idx \in {x \in SUBSET DOMAIN LinhasLivres : Cardinality(x) <= MaxFree}}

----------------------------------------------------------------------------
(* carregar_dados, lines 65-83 *)

DataFrameVazio == [colunas |-> ColunasBase, linhas |-> <<>>]

\* get_country_codes(), lines 86-95, restricted to the model's countries
get_country_codes(p) ==
    CASE p = "World" -> "OWID_WRL"
      [] p = "India" -> "IND"
      [] p = "Brazil" -> "BRA"
      [] OTHER -> ""

\* the st.error calls of the loop of lines 72-78, in the order of required_columns
ErrosDeColuna(cs) ==
    (IF "country" \in cs THEN <<>> ELSE <<"erro_coluna_country">>)
    \o (IF "year" \in cs THEN <<>> ELSE <<"erro_coluna_year">>)
    \o (IF "co2" \in cs THEN <<>> ELSE <<"erro_coluna_co2">>)

\* the value carregar_dados returns and the elements it shows
carregar_dados(a) ==
    IF ~a.legivel
    THEN [valor |-> DataFrameVazio, elementos |-> <<"erro_carga">>]
    ELSE IF "iso_code" \notin a.colunas /\ "country" \notin a.colunas
    THEN \* df['country'] raises KeyError inside the try
         [valor |-> DataFrameVazio,
          elementos |-> ErrosDeColuna(a.colunas) \o <<"erro_carga">>]
    ELSE [valor |->
            [colunas |-> a.colunas \cup {"iso_code"},
             linhas |->
                IF "iso_code" \in a.colunas THEN a.linhas
                ELSE [j \in DOMAIN a.linhas |->
                        [a.linhas[j] EXCEPT !.iso_code =
                            get_country_codes(a.linhas[j].country)]]],
          elementos |-> ErrosDeColuna(a.colunas)]

\* whether carregar_dados reported a load error with st.error
ErroDeCarga(els) ==
    \E j \in DOMAIN els :
        els[j] \in {"erro_carga", "erro_coluna_country", "erro_coluna_year",
                    "erro_coluna_co2"}

\* pandas' DataFrame.empty: an axis of length 0
Empty(d) == d.linhas = <<>> \/ d.colunas = {}

----------------------------------------------------------------------------
(* limpar_dados, lines 107-121 *)

Excludes == {"World", "International Transport", "EU-27", "EU-28"}

\* dropna(subset=['country', 'year', 'co2']), line 109
DropNa(linhas) ==
    SelectSeq(linhas, LAMBDA r : r.country # "" /\ ~IsNa(r.year) /\ ~IsNa(r.co2))

\* line 109 raises KeyError when a column of the subset is missing
LimparLevantaKeyError(d) == ~({"country", "year", "co2"} \subseteq d.colunas)

\* line 112, astype(int), raises ValueError on a year that is no number
LimparLevantaValueError(d) ==
    \E j \in DOMAIN DropNa(d.linhas) : DropNa(d.linhas)[j].year.k = "str"

\* line 115: pd.to_numeric(errors='coerce') turns a non-numeric co2 into NaN
Coerce(c) == IF c.k = "num" THEN c ELSE NaN

DfClean(d) ==
    [colunas |-> d.colunas,
     linhas |-> [j \in DOMAIN DropNa(d.linhas) |->
                    [DropNa(d.linhas)[j] EXCEPT !.co2 = Coerce(@)]]]

DfCountries(d) ==
    [colunas |-> d.colunas,
     linhas |-> SelectSeq(DfClean(d).linhas, LAMBDA r : r.country \notin Excludes)]

----------------------------------------------------------------------------
(* lines 126-127 *)

RECURSIVE SortedInts(_)
\* sorted() of a set of integers
SortedInts(S) ==
    IF S = {} THEN <<>>
    ELSE LET m == CHOOSE x \in S : \A y \in S : x <= y
         IN  <<m>> \o SortedInts(S \ {m})

RECURSIVE SortedPaises(_)
\* sorted() of a set of country names
SortedPaises(S) ==
    IF S = {} THEN <<>>
    ELSE LET m == CHOOSE x \in S : \A y \in S : Rank(x) <= Rank(y)
         IN  <<m>> \o SortedPaises(S \ {m})

anos_disponiveis == SortedInts({df_clean.linhas[j].year.v : j \in DOMAIN df_clean.linhas})
anos_validos == SelectSeq(anos_disponiveis, LAMBDA ano : ano >= AnoCorte)

----------------------------------------------------------------------------
(* Tab 1, lines 132-186: the selections and the global means *)

\* df_clean[df_clean['year'] == ano], lines 143-144 and 315
DoAno(d, ano) == SelectSeq(d.linhas, LAMBDA r : r.year.v = ano)

PaisesDe(linhas) == {linhas[j].country : j \in DOMAIN linhas}

\* line 145 with the countries of either year instead of those of both
PaisesDeAlgumAno(a1, a2) ==
    SortedPaises(PaisesDe(DoAno(df_clean, a1)) \cup PaisesDe(DoAno(df_clean, a2)))

\* line 145
PaisesComuns(a1, a2) ==
    SortedPaises(PaisesDe(DoAno(df_clean, a1)) \cap PaisesDe(DoAno(df_clean, a2)))

\* the options of the continent selectbox after 'Todos', line 149
Continentes ==
    IF "continent" \in df_clean.colunas
    THEN {df_clean.linhas[j].continent : j \in DOMAIN df_clean.linhas} \ {""}
    ELSE {}

\* lines 152-154
FiltrarContinente(comuns, cont) ==
    IF cont = "Todos" THEN comuns
    ELSE SelectSeq(comuns, LAMBDA p :
            \E j \in DOMAIN df_clean.linhas :
                /\ df_clean.linhas[j].continent = cont
                /\ df_clean.linhas[j].country = p)

\* a text as the sequence of its characters
Letras(p) ==
    CASE p = "Brazil" -> <<"B", "r", "a", "z", "i", "l">>
      [] p = "EU-27" -> <<"E", "U", "-", "2", "7">>
      [] p = "India" -> <<"I", "n", "d", "i", "a">>
      [] p = "World" -> <<"W", "o", "r", "l", "d">>
      [] OTHER -> <<>>

\* str.lower() on the characters the model uses
LowerCh(ch) ==
    CASE ch = "B" -> "b" [] ch = "E" -> "e" [] ch = "U" -> "u" [] ch = "I" -> "i"
      [] ch = "W" -> "w" [] ch = "R" -> "r" [] ch = "Z" -> "z"
      [] OTHER -> ch

Lower(t) == [j \in DOMAIN t |-> LowerCh(t[j])]

\* Python's 'a in b' on texts
Contem(a, b) ==
    \E k \in 0..(Len(b) - Len(a)) : \A j \in 1..Len(a) : b[k + j] = a[j]

\* the texts typed into 'Buscar pais'
Buscas == {<<>>, <<"R", "a">>}

\* line 159
PaisesFiltrados(comuns, busca) ==
    SelectSeq(comuns, LAMBDA p : Contem(Lower(busca), Lower(Letras(p))))

Prefixo(s, n) == SubSeq(s, 1, IF Len(s) < n THEN Len(s) ELSE n)

PaisesSugeridos == <<"Brazil", "United States", "China", "India", "Germany">>

\* the default of the multiselect, lines 164 and 166-168; [] where line 162 gives none
PaisesDefault(comuns, busca) ==
    IF busca # <<>>
    THEN Prefixo(PaisesFiltrados(comuns, busca), 5)
    ELSE Prefixo(SelectSeq(PaisesSugeridos, LAMBDA p : p \in Range(comuns)), 3)

\* what st.multiselect can return: the default, or what the user picks among
\* the options
Selecoes(comuns, busca) ==
    {PaisesDefault(comuns, busca)} \cup InjSeqsUpTo(Range(comuns), MaxSel)

RECURSIVE SomaCo2(_)
SomaCo2(linhas) ==
    IF linhas = <<>> THEN 0
    ELSE (IF Head(linhas).co2.k = "num" THEN Head(linhas).co2.v ELSE 0)
         + SomaCo2(Tail(linhas))

\* Series.mean(): NaN values are skipped; nan when no value is left
MeanCo2(linhas) ==
    LET validas == SelectSeq(linhas, LAMBDA r : r.co2.k = "num")
    IN  IF validas = <<>> THEN FNaN ELSE Frac(SomaCo2(validas), Len(validas))

\* lines 174-175
DadosMundo(a) == SelectSeq(DoAno(df_clean, a), LAMBDA r : r.country = "World")

\* the branch taken at line 177
UsaLinhaMundo(a1, a2) == DadosMundo(a1) # <<>> /\ DadosMundo(a2) # <<>>

\* lines 177-182
MediaGlobal(a, a1, a2) ==
    IF UsaLinhaMundo(a1, a2)
    THEN ToFloat(DadosMundo(a)[1].co2)
    ELSE MeanCo2(DoAno(df_clean, a))

\* lines 185-186
DfSel(a, sel) == SelectSeq(DoAno(df_clean, a), LAMBDA r : r.country \in Range(sel))

----------------------------------------------------------------------------
(* Tab 1, lines 249-302: the card of one country *)

Nenhum == [t |-> "none", n |-> 0, d |-> 1]

\* lines 259-262
VarPct(v1, v2) ==
    IF FGt0(v1) THEN FMul(FDiv(FSub(v2, v1), v1), 100)
    ELSE IF FGt0(v2) THEN FInf ELSE Frac(0, 1)

\* line 283
Dif(v1, v2) == FSub(v2, v1)

\* the delta of st.metric, lines 272 and 279
VezesMedia(v, media) == FDiv(v, media)

\* lines 295-300
TextoVariacao(v1, v2) ==
    IF FGt0(Dif(v1, v2))
    THEN [tipo |-> "aumento", mt |-> Dif(v1, v2), pct |-> VarPct(v1, v2)]
    ELSE IF FLt0(Dif(v1, v2))
    THEN [tipo |-> "reducao", mt |-> FAbs(Dif(v1, v2)), pct |-> FAbs(VarPct(v1, v2))]
    ELSE [tipo |-> "sem_variacao", mt |-> Nenhum, pct |-> Nenhum]

\* round(x) without ndigits raises ValueError on nan, OverflowError on inf
RoundLevanta(x) == x.t # "num"

CartaoVazio ==
    [estado |-> "nenhum", v1 |-> Nenhum, v2 |-> Nenhum, var_pct |-> Nenhum,
     dif |-> Nenhum, vezes1 |-> Nenhum, vezes2 |-> Nenhum,
     texto |-> [tipo |-> "nenhum", mt |-> Nenhum, pct |-> Nenhum]]

\* one iteration of the loop of line 249, from the two values found at 255-256
Cartao(v1, v2, m1, m2) ==
    IF RoundLevanta(v1)
    THEN [CartaoVazio EXCEPT !.estado = "excecao", !.v1 = v1, !.v2 = v2,
                             !.var_pct = VarPct(v1, v2)]
    ELSE IF RoundLevanta(v2)
    THEN [CartaoVazio EXCEPT !.estado = "excecao", !.v1 = v1, !.v2 = v2,
                             !.var_pct = VarPct(v1, v2),
                             !.vezes1 = VezesMedia(v1, m1)]
    ELSE [estado |-> "mostrado", v1 |-> v1, v2 |-> v2, var_pct |-> VarPct(v1, v2),
          dif |-> Dif(v1, v2), vezes1 |-> VezesMedia(v1, m1),
          vezes2 |-> VezesMedia(v2, m2), texto |-> TextoVariacao(v1, v2)]

----------------------------------------------------------------------------
(* Tab 2, lines 304-401 *)

\* the options of the metric selectbox, line 327
MetricasMapa ==
    IF "co2_per_capita" \in df_clean.colunas THEN {"co2", "co2_per_capita"} ELSE {"co2"}

\* line 315
DfMapa(ano) == DoAno(df_clean, ano)

\* line 318: the column is always there after carregar_dados
SemIso(linhas) == \A j \in DOMAIN linhas : linhas[j].iso_code = ""

RemoveAt(s, j) == SubSeq(s, 1, j - 1) \o SubSeq(s, j + 1, Len(s))

RECURSIVE SortNums(_, _)
\* rows with a numeric value of m by that value, descending; ties keep their order
SortNums(s, m) ==
    IF s = <<>> THEN <<>>
    ELSE LET j == CHOOSE a \in DOMAIN s :
                    /\ \A b \in DOMAIN s : s[b][m].v <= s[a][m].v
                    /\ \A b \in 1..(a - 1) : s[b][m].v < s[a][m].v
         IN  <<s[j]>> \o SortNums(RemoveAt(s, j), m)

\* sort_values(by=m, ascending=False): NaN values come last
SortValuesDesc(linhas, m) ==
    SortNums(SelectSeq(linhas, LAMBDA r : r[m].k = "num"), m)
    \o SelectSeq(linhas, LAMBDA r : r[m].k # "num")

\* line 387
Top10(ano, m) == Prefixo(SortValuesDesc(DfMapa(ano), m), TopN)

----------------------------------------------------------------------------
(* Tab 3, lines 403-491 *)

\* the options of the multiselect, line 409
OpcoesTendencia == SortedPaises(PaisesDe(df_countries.linhas))

\* line 410
DefaultTendencia ==
    IF {"Brazil", "United States", "China"} \subseteq PaisesDe(df_countries.linhas)
    THEN <<"Brazil", "United States", "China">>
    ELSE <<>>

\* the ends the user gives the year slider of line 414: the first or the last year
ExtremosTendencia ==
    {anos_disponiveis[1], anos_disponiveis[Len(anos_disponiveis)]}

\* lines 424-428
DfTendencia(sel, lo, hi) ==
    SelectSeq(df_clean.linhas,
              LAMBDA r : r.country \in Range(sel) /\ r.year.v >= lo /\ r.year.v <= hi)

----------------------------------------------------------------------------
(* The script run *)

EntradaVazia == [v1 |-> Nenhum, v2 |-> Nenhum, media1 |-> Nenhum, media2 |-> Nenhum]

CacheVazio == [cheio |-> FALSE, retorno |-> [valor |-> DataFrameVazio, elementos |-> <<>>]]

\* The names bound inside the block of a tab are read by no statement after the
\* block: the model holds their values while the tab runs and drops them when
\* the next tab starts.
Tab1Limpo ==
    /\ ano1' = SemAno
    /\ ano2' = SemAno
    /\ paises_selecionados' = <<>>
    /\ media1' = Nenhum
    /\ media2' = Nenhum
    /\ i' = 0
    /\ cartao' = CartaoVazio

Tab2Limpo ==
    /\ ano_mapa' = SemAno
    /\ metrica_mapa' = ""
    /\ top10' = <<>>

Tab3Limpo ==
    /\ paises_tendencia' = <<>>
    /\ df_tendencia' = <<>>

Init ==
    /\ arquivo \in Arquivos
    /\ cache = CacheVazio
    /\ pc = "inicio"
    /\ df = DataFrameVazio
    /\ tela = <<>>
    /\ df_clean = DataFrameVazio
    /\ df_countries = DataFrameVazio
    /\ ano1 = SemAno
    /\ ano2 = SemAno
    /\ paises_selecionados = <<>>
    /\ media1 = Nenhum
    /\ media2 = Nenhum
    /\ definicao = "nenhuma"
    /\ i = 0
    /\ cartao = CartaoVazio
    /\ ano_mapa = SemAno
    /\ metrica_mapa = ""
    /\ top10 = <<>>
    /\ paises_tendencia = <<>>
    /\ df_tendencia = <<>>
    /\ entrada = EntradaVazia

\* lines 97-99: df = carregar_dados(), memoised by @st.cache_data, which also
\* replays the elements the function showed
CarregarDados ==
    /\ pc = "inicio"
    /\ LET r == IF cache.cheio THEN cache.retorno ELSE carregar_dados(arquivo)
       IN  /\ cache' = [cheio |-> TRUE, retorno |-> r]
           /\ df' = r.valor
           /\ tela' = r.elementos
    /\ pc' = "verificar"
    /\ UNCHANGED <<arquivo, df_clean, df_countries, ano1, ano2, paises_selecionados,
                   media1, media2, definicao, i, cartao, ano_mapa, metrica_mapa,
                   top10, paises_tendencia, df_tendencia, entrada>>

\* lines 102-104
VerificarDados ==
    /\ pc = "verificar"
    /\ IF Empty(df)
       THEN /\ tela' = Append(tela, "erro_sem_dados")
            /\ pc' = "parado"
       ELSE /\ tela' = tela
            /\ pc' = "limpar"
    /\ UNCHANGED <<arquivo, cache, df, df_clean, df_countries, ano1, ano2,
                   paises_selecionados, media1, media2, definicao, i, cartao,
                   ano_mapa, metrica_mapa, top10, paises_tendencia, df_tendencia,
                   entrada>>

\* line 123: df_clean, df_countries = limpar_dados(df)
LimparDados ==
    /\ pc = "limpar"
    /\ IF LimparLevantaKeyError(df) \/ LimparLevantaValueError(df)
       THEN /\ pc' = "excecao"
            /\ tela' = Append(tela, "excecao_limpar_dados")
            /\ UNCHANGED <<df_clean, df_countries>>
       ELSE /\ pc' = "tab1"
            /\ tela' = tela
            /\ df_clean' = DfClean(df)
            /\ df_countries' = DfCountries(df)
    /\ UNCHANGED <<arquivo, cache, df, ano1, ano2, paises_selecionados, media1,
                   media2, definicao, i, cartao, ano_mapa, metrica_mapa, top10,
                   paises_tendencia, df_tendencia, entrada>>

\* st.selectbox raises when the index is not a position of a non-empty list of
\* options; with no options it returns None
SelectboxLevanta(n, idx) == n > 0 /\ ~(0 <= idx /\ idx < n)

AnosOpcoes == IF anos_validos = <<>> THEN {SemAno} ELSE Range(anos_validos)

\* lines 132-241: the widgets of tab 1, the global means and the chart
Tab1Selecao ==
    /\ pc = "tab1"
    /\ UNCHANGED <<arquivo, cache, df, df_clean, df_countries, ano_mapa,
                   metrica_mapa, top10, paises_tendencia, df_tendencia, entrada>>
    /\ IF \/ SelectboxLevanta(Len(anos_validos), Len(anos_validos) - OffsetAno1)
          \/ SelectboxLevanta(Len(anos_validos), Len(anos_validos) - OffsetAno2)
       THEN /\ pc' = "excecao"
            /\ tela' = Append(tela, "excecao_selectbox")
            /\ UNCHANGED <<ano1, ano2, paises_selecionados, media1, media2,
                           definicao, i, cartao>>
       ELSE \E a1 \in AnosOpcoes, a2 \in AnosOpcoes, busca \in Buscas,
               cont \in {"Todos"} \cup Continentes :
              LET comuns == FiltrarContinente(PaisesComuns(a1, a2), cont)
                  aviso == IF busca # <<>> /\ PaisesFiltrados(comuns, busca) = <<>>
                           THEN <<"info_nenhum_pais_encontrado">> ELSE <<>>
              IN  \E sel \in Selecoes(comuns, busca) :
                    /\ ano1' = a1
                    /\ ano2' = a2
                    /\ paises_selecionados' = sel
                    /\ cartao' = CartaoVazio
                    /\ IF sel = <<>>
                       THEN /\ tela' = tela \o aviso \o <<"info_selecione_pais">>
                            /\ pc' = "tab2"
                            /\ i' = 0
                            /\ UNCHANGED <<media1, media2, definicao>>
                       ELSE /\ media1' = MediaGlobal(a1, a1, a2)
                            /\ media2' = MediaGlobal(a2, a1, a2)
                            /\ definicao' = IF UsaLinhaMundo(a1, a2)
                                            THEN "linha_world" ELSE "media_aritmetica"
                            /\ tela' = tela \o aviso \o <<"grafico_comparacao">>
                            /\ pc' = "cartoes"
                            /\ i' = 1

\* the co2 values of the rows of a country, lines 255-256 before .values[0]
ValoresDe(a, sel, pais) ==
    SelectSeq(DfSel(a, sel), LAMBDA r : r.country = pais)

\* lines 249-302: one iteration of the loop over paises_selecionados
Tab1Cartao ==
    /\ pc = "cartoes"
    /\ i <= Len(paises_selecionados)
    /\ UNCHANGED <<arquivo, cache, df, df_clean, df_countries, ano1, ano2,
                   paises_selecionados, media1, media2, definicao, ano_mapa,
                   metrica_mapa, top10, paises_tendencia, df_tendencia, entrada>>
    /\ LET l1 == ValoresDe(ano1, paises_selecionados, paises_selecionados[i])
           l2 == ValoresDe(ano2, paises_selecionados, paises_selecionados[i])
       IN  IF l1 = <<>> \/ l2 = <<>>
           THEN \* .values[0] raises IndexError
                /\ pc' = "excecao"
                /\ tela' = Append(tela, "excecao_indice_pais")
                /\ UNCHANGED <<i, cartao>>
           ELSE LET c == Cartao(ToFloat(l1[1].co2), ToFloat(l2[1].co2), media1, media2)
                IN  /\ cartao' = c
                    /\ IF c.estado = "excecao"
                       THEN /\ pc' = "excecao"
                            /\ tela' = Append(tela, "excecao_round")
                            /\ i' = i
                       ELSE /\ tela' = Append(tela, "cartao")
                            /\ i' = i + 1
                            /\ pc' = IF i = Len(paises_selecionados)
                                     THEN "tab2" ELSE "cartoes"

\* lines 304-401: the map and the top-10 chart
Tab2 ==
    /\ pc = "tab2"
    /\ Tab1Limpo
    /\ UNCHANGED <<arquivo, cache, df, df_clean, df_countries, definicao,
                   paises_tendencia, df_tendencia, entrada>>
    /\ IF anos_validos = <<>>
       THEN \* anos_validos[-1] raises IndexError, line 311
            /\ pc' = "excecao"
            /\ tela' = Append(tela, "excecao_indice_ano")
            /\ UNCHANGED <<ano_mapa, metrica_mapa, top10>>
       ELSE \E a \in Range(anos_validos), m \in MetricasMapa :
              /\ ano_mapa' = a
              /\ metrica_mapa' = m
              /\ top10' = Top10(a, m)
              /\ tela' = tela
                         \o (IF SemIso(DfMapa(a)) THEN <<"aviso_iso">> ELSE <<>>)
                         \o <<"mapa", "top10">>
              /\ pc' = "tab3"

\* lines 403-491: the trends
Tab3 ==
    /\ pc = "tab3"
    /\ Tab2Limpo
    /\ UNCHANGED <<arquivo, cache, df, df_clean, df_countries, ano1, ano2,
                   paises_selecionados, media1, media2, definicao, i, cartao,
                   entrada>>
    /\ \E sel \in {DefaultTendencia} \cup InjSeqsUpTo(Range(OpcoesTendencia), MaxSel),
          lo \in ExtremosTendencia, hi \in ExtremosTendencia :
          /\ lo <= hi
          /\ paises_tendencia' = sel
          /\ IF sel = <<>>
             THEN /\ tela' = Append(tela, "info_selecione_tendencia")
                  /\ df_tendencia' = <<>>
             ELSE /\ tela' = Append(tela, "grafico_tendencia")
                  /\ df_tendencia' = DfTendencia(sel, lo, hi)
    /\ pc' = "rodape"

\* lines 493-517
Rodape ==
    /\ pc = "rodape"
    /\ pc' = "fim"
    /\ tela' = Append(tela, "rodape")
    /\ UNCHANGED <<arquivo, cache, df, df_clean, df_countries, ano1, ano2,
                   paises_selecionados, media1, media2, definicao, i, cartao,
                   ano_mapa, metrica_mapa, top10, paises_tendencia, df_tendencia,
                   entrada>>

\* a user interaction after the run has ended: Streamlit runs the script again
\* from the top; only the cache outlives the run (definicao is kept as the
\* record of the last comparison made in the session)
Interagir ==
    /\ pc \in {"fim", "parado", "excecao"}
    /\ pc' = "inicio"
    /\ df' = DataFrameVazio
    /\ tela' = <<>>
    /\ df_clean' = DataFrameVazio
    /\ df_countries' = DataFrameVazio
    /\ Tab1Limpo
    /\ Tab2Limpo
    /\ Tab3Limpo
    /\ UNCHANGED <<arquivo, cache, definicao, entrada>>

Next ==
    \/ CarregarDados
    \/ VerificarDados
    \/ LimparDados
    \/ Tab1Selecao
    \/ Tab1Cartao
    \/ Tab2
    \/ Tab3
    \/ Rodape
    \/ Interagir

Spec == Init /\ [][Next]_vars

----------------------------------------------------------------------------
(* The card of lines 255-300 on its own: the values v1, v2 found for a      *)
(* country and the two global means are drawn from small sets, and one      *)
(* iteration of the loop is applied to them.                                *)

\* the values of co2 a cleaned row can hold: a number or nan
ValoresCartao == {Frac(v, 1) : v \in {-100, 0, 50, 100, 150, 400, 500}} \cup {FNaN}

\* the values drawn for the second year
ValoresSegundoAno == ValoresCartao \ {Frac(-100, 1)}

MediasCartao == {Frac(0, 1), Frac(100, 1), Frac(1700, 1), FNaN}

InitCartao ==
    /\ arquivo = [legivel |-> FALSE, colunas |-> {}, linhas |-> <<>>]
    /\ cache = CacheVazio
    /\ pc = "cartao_isolado"
    /\ df = DataFrameVazio
    /\ tela = <<>>
    /\ df_clean = DataFrameVazio
    /\ df_countries = DataFrameVazio
    /\ ano1 = SemAno
    /\ ano2 = SemAno
    /\ paises_selecionados = <<>>
    /\ media1 = Nenhum
    /\ media2 = Nenhum
    /\ definicao = "nenhuma"
    /\ i = 0
    /\ cartao = CartaoVazio
    /\ ano_mapa = SemAno
    /\ metrica_mapa = ""
    /\ top10 = <<>>
    /\ paises_tendencia = <<>>
    /\ df_tendencia = <<>>
    /\ entrada \in [v1 : ValoresCartao, v2 : ValoresSegundoAno,
                    media1 : MediasCartao, media2 : MediasCartao]

AplicarCartao ==
    /\ pc = "cartao_isolado"
    /\ cartao' = Cartao(entrada.v1, entrada.v2, entrada.media1, entrada.media2)
    /\ pc' = "cartao_aplicado"
    /\ UNCHANGED <<arquivo, cache, df, tela, df_clean, df_countries, ano1, ano2,
                   paises_selecionados, media1, media2, definicao, i, ano_mapa,
                   metrica_mapa, top10, paises_tendencia, df_tendencia, entrada>>

NextCartao == AplicarCartao

SpecCartao == InitCartao /\ [][NextCartao]_vars

----------------------------------------------------------------------------
(* Properties *)

Zero == Frac(0, 1)

\* C1: in the per-country comparison, when the base-year value v1 is 0 the
\* percentage change is a distinct 'undefined' outcome: never the number 0,
\* never infinity, and the text shown is neither an increase nor a decrease
\* carrying a percentage figure.
C1_BaseZeroIsUndefined ==
    (cartao.estado = "mostrado" /\ cartao.v1 = Zero) =>
        /\ cartao.var_pct \notin {Zero, FInf, FNegInf}
        /\ ~(cartao.texto.tipo \in {"aumento", "reducao"} /\ cartao.texto.pct # Nenhum)

\* C2: for every base-year value v1 # 0, positive or negative, and every v2, the
\* comparison computes dif = v2 - v1 and var_pct = (v2 - v1) / v1 * 100.
C2_DeltaForNonZeroBase ==
    (/\ cartao.estado = "mostrado"
     /\ cartao.v1.t = "num" /\ cartao.v2.t = "num"
     /\ cartao.v1.d = 1 /\ cartao.v2.d = 1
     /\ cartao.v1.n # 0) =>
        /\ cartao.dif = Frac(cartao.v2.n - cartao.v1.n, 1)
        /\ cartao.var_pct = Frac((cartao.v2.n - cartao.v1.n) * 100, cartao.v1.n)

\* C3: for each of the two selected years, the global mean of the comparison is
\* the arithmetic mean of co2 over the records of that year whose co2 is
\* present, also when the data holds a 'World' row for the year.
C3_MediaIsArithmeticMean ==
    (pc = "cartoes") =>
        /\ media1 = MeanCo2(DoAno(df_clean, ano1))
        /\ media2 = MeanCo2(DoAno(df_clean, ano2))

\* C4: whenever the loader reports a load error (unreadable file, or a missing
\* column country/year/co2) the run is terminal: after the check of df.empty the
\* run is stopped, and no step after the load runs.
C4_LoadErrorIsTerminal ==
    ErroDeCarga(tela) => pc \in {"verificar", "parado"}

\* C5: the 'x times the global mean' figure is value / mean when the mean is
\* non-zero, and is reported as undefined, with no division performed, when the
\* global mean of the year is 0.
C5_VezesMediaUndefinedAtZero ==
    (cartao.estado = "mostrado") =>
        /\ entrada.media1.t = "num" =>
              cartao.vezes1 = IF entrada.media1.n = 0 THEN Nenhum
                              ELSE Frac(cartao.v1.n * entrada.media1.d,
                                        cartao.v1.d * entrada.media1.n)
        /\ entrada.media2.t = "num" =>
              cartao.vezes2 = IF entrada.media2.n = 0 THEN Nenhum
                              ELSE Frac(cartao.v2.n * entrada.media2.d,
                                        cartao.v2.d * entrada.media2.n)

Mostrou(e) == e \in Range(tela)

\* C6: an empty country selection is a no-op display state: with no country
\* selected in tab 1 (tab 3) only an informational message is shown, no global
\* mean, delta or lookup is computed for the tab, and the run goes on to the
\* remaining tabs and the footer without aborting.
C6_EmptySelectionIsNoOp ==
    /\ Mostrou("info_selecione_pais") =>
          /\ ~Mostrou("grafico_comparacao") /\ ~Mostrou("cartao")
          /\ media1 = Nenhum /\ media2 = Nenhum /\ cartao = CartaoVazio
    /\ Mostrou("info_selecione_tendencia") =>
          /\ ~Mostrou("grafico_tendencia")
          /\ df_tendencia = <<>>
    /\ (Mostrou("info_selecione_pais") \/ Mostrou("info_selecione_tendencia")) =>
          pc \notin {"excecao", "parado"}

\* C7: the two definitions of the global mean are never mixed: the definition a
\* comparison uses (the 'World' row or the arithmetic mean) does not change from
\* one selection of years to the next over the same dataset.
C7_DefinitionNeverChanges ==
    [][definicao # "nenhuma" => definicao' = definicao]_vars

LinhaCompleta(r) == r.country # "" /\ r.year.k = "num" /\ r.co2.k = "num"

\* C8: after limpar_dados every record of df_clean and of df_countries has a
\* present country, a present integer year and a present numeric co2.
C8_CleanRecordsAreComplete ==
    /\ \A j \in DOMAIN df_clean.linhas : LinhaCompleta(df_clean.linhas[j])
    /\ \A j \in DOMAIN df_countries.linhas : LinhaCompleta(df_countries.linhas[j])

\* the value of the selected metric as a number; a missing value ranks last
ValorMetrica(r) == IF r[metrica_mapa].k = "num" THEN r[metrica_mapa].v ELSE -1

\* C9: the top-10 list of the map year holds at most 10 records, all of that
\* year, in descending order of the metric, none smaller than a record of the
\* year left out, and every entry is a country, never an aggregate row.
C9_Top10OnlyCountries ==
    (pc = "tab3") =>
        /\ Len(top10) <= TopN
        /\ \A j \in DOMAIN top10 : top10[j].year.v = ano_mapa
        /\ \A j, k \in DOMAIN top10 :
              j < k => ValorMetrica(top10[j]) >= ValorMetrica(top10[k])
        /\ \A j \in DOMAIN top10 : \A k \in DOMAIN DfMapa(ano_mapa) :
              \/ DfMapa(ano_mapa)[k] \in Range(top10)
              \/ ValorMetrica(top10[j]) >= ValorMetrica(DfMapa(ano_mapa)[k])
        /\ \A j \in DOMAIN top10 : top10[j].country \notin Excludes

\* C10: every selected country has a record in the first year and in the second
\* year, so the lookups .values[0] of lines 255-256 never index an empty result.
C10_LookupsNeverEmpty ==
    /\ ~Mostrou("excecao_indice_pais")
    /\ (pc = "cartoes") =>
          \A k \in DOMAIN paises_selecionados :
              /\ ValoresDe(ano1, paises_selecionados, paises_selecionados[k]) # <<>>
              /\ ValoresDe(ano2, paises_selecionados, paises_selecionados[k]) # <<>>

\* C10 witness: with two different years and two countries selected, the loop
\* has looked up and shown the first country and is at the second
C10_Witness ==
    /\ pc = "cartoes"
    /\ i = 2
    /\ Len(paises_selecionados) = 2
    /\ cartao.estado = "mostrado"
    /\ ano1 # ano2

\* C11: once the dataset is loaded, not empty and cleaned, the default years of
\* tab 1 are positions of anos_validos (len - 5 and len - 1 lie in 0..len-1),
\* the default of the map slider anos_validos[-1] exists, and no run aborts at
\* a year widget, whatever the number of years from 1990 on
C11_DefaultYearsAreValid ==
    /\ pc = "tab1" =>
          /\ 0 <= Len(anos_validos) - OffsetAno1
          /\ Len(anos_validos) - OffsetAno1 < Len(anos_validos)
          /\ 0 <= Len(anos_validos) - OffsetAno2
          /\ Len(anos_validos) - OffsetAno2 < Len(anos_validos)
          /\ anos_validos # <<>>
    /\ ~Mostrou("excecao_selectbox")
    /\ ~Mostrou("excecao_indice_ano")

====
